---- MODULE Spec2Model ----
(***************************************************************************)
(* Fast global bounds of a scene-graph subtree (getFastGlobalBounds and    *)
(* _getGlobalBoundsRecursive) and the bounds cache of TextView.            *)
(*                                                                         *)
(* Transforms are pure translations; a Bounds is an axis-aligned rectangle *)
(* with the Infinity sentinel of an empty accumulator.                     *)
(***************************************************************************)
EXTENDS Integers, Sequences, FiniteSets, TLC

\* ------------------------------------------------------------- bounds ----
NumNodes == 3       \* nodes of the scene tree
MaxEdits == 4       \* children added and properties set before the queries
MaxShift == 1       \* largest component of a node's position
MaxMargin == 1      \* largest margin an effect pads the bounds with
Infinity == 1000    \* stands for the +/-Infinity of an empty Bounds

NodeIds == 1..NumNodes
BoundsIds == 0..NumNodes        \* 0: the caller's output Bounds; others: pooled
OutId == 0

Min(a, b) == IF a < b THEN a ELSE b
Max(a, b) == IF a > b THEN a ELSE b

\* ------------------------------------------------------------- Matrix ----
\* A translation matrix (a = d = 1, b = c = 0).
Translate(x, y) == [tx |-> x, ty |-> y]
IDENTITY == Translate(0, 0)
\* Matrix.appendFrom(a, b): a applied first, then b.
appendFrom(a, b) == Translate(a.tx + b.tx, a.ty + b.ty)
\* Matrix.invert()
invert(m) == Translate(0 - m.tx, 0 - m.ty)

\* ------------------------------------------------------------- Bounds ----
Rect(x0, y0, x1, y1) == [minX |-> x0, minY |-> y0, maxX |-> x1, maxY |-> y1]
\* Bounds.clear()
clear == Rect(Infinity, Infinity, 0 - Infinity, 0 - Infinity)
\* Bounds.isValid
isValid(b) == b.minX <= b.maxX /\ b.minY <= b.maxY
\* Bounds.addFrame(x0, y0, x1, y1, matrix)
addFrame(b, x0, y0, x1, y1, m) ==
    Rect(Min(b.minX, x0 + m.tx), Min(b.minY, y0 + m.ty),
         Max(b.maxX, x1 + m.tx), Max(b.maxY, y1 + m.ty))
\* Bounds.addRect(rect, matrix): rect is {x, y, width, height}
addRect(b, r, m) == addFrame(b, r.x, r.y, r.x + r.width, r.y + r.height, m)
\* Bounds.addBounds(other, matrix): an invalid other adds nothing
addBounds(b, o, m) ==
    IF isValid(o) THEN addFrame(b, o.minX, o.minY, o.maxX, o.maxY, m) ELSE b
\* Bounds.applyMatrix(matrix): nothing to do on an invalid Bounds
applyMatrix(b, m) ==
    IF isValid(b)
    THEN Rect(b.minX + m.tx, b.minY + m.ty, b.maxX + m.tx, b.maxY + m.ty)
    ELSE b
\* Does rectangle a contain rectangle b?
Contains(a, b) ==
    /\ a.minX <= b.minX /\ a.minY <= b.minY
    /\ a.maxX >= b.maxX /\ a.maxY >= b.maxY

\* ------------------------------------------------------------- Effect ----
\* An effect either has no addBounds, or its addBounds pads the Bounds by
\* its margin on every side.
Effect(capable, margin) == [capable |-> capable, margin |-> margin]
EffectAddBounds(e, b) ==
    IF isValid(b)
    THEN Rect(b.minX - e.margin, b.minY - e.margin,
              b.maxX + e.margin, b.maxY + e.margin)
    ELSE b

\* ---------------------------------------------------------- Container ----
\* A scene: the nodes present, each node's parent and properties, and the
\* world transform of the render group that encloses node 1.
VARIABLES scene, edits, heap, last
\* A TextView (tv), the text styles (styles: their content and whether the
\* view listens to their 'update'), the owner's onViewUpdate calls of the
\* last step (notified) and what the last read of bounds gave (read).
VARIABLES tv, styles, notified, read

Children(sc, n) ==
    LET kids == {c \in sc.nodes : c # 1 /\ sc.parent[c] = n}
        RECURSIVE Sorted(_)
        Sorted(s) == IF s = {} THEN <<>>
                     ELSE LET lo == CHOOSE x \in s : \A y \in s : x <= y
                          IN <<lo>> \o Sorted(s \ {lo})
    IN Sorted(kids)

\* Container.rgTransform: the transform to the render group the node is in;
\* for a render-group root, to the render group that encloses it.
RECURSIVE rgTransform(_, _)
rgTransform(sc, n) ==
    IF n = 1 \/ sc.isRenderGroupRoot[sc.parent[n]]
    THEN sc.position[n]
    ELSE appendFrom(sc.position[n], rgTransform(sc, sc.parent[n]))

\* Container.renderGroup.worldTransform: of the group the node is in, or of
\* the group it roots.
RECURSIVE renderGroupWorldTransform(_, _)
renderGroupWorldTransform(sc, n) ==
    LET enclosing == IF n = 1 THEN sc.outerWorld
                     ELSE renderGroupWorldTransform(sc, sc.parent[n])
    IN IF sc.isRenderGroupRoot[n]
       THEN appendFrom(rgTransform(sc, n), enclosing)
       ELSE enclosing

\* Container.worldTransform
worldTransform(sc, n) ==
    IF sc.isRenderGroupRoot[n]
    THEN renderGroupWorldTransform(sc, n)
    ELSE appendFrom(rgTransform(sc, n), renderGroupWorldTransform(sc, n))

\* -------------------------------------------------------- boundsPool ----
\* The state a query runs on: the content of every Bounds object (b), the
\* pool's free list (free, last returned at the end), how many pooled Bounds
\* were ever made (made), and the record of what the query did (log).
Ev(op, n, arg) == [op |-> op, node |-> n, arg |-> arg]
Log(st, op, n, arg) == [st EXCEPT !.log = Append(@, Ev(op, n, arg))]
SetB(st, id, val) == [st EXCEPT !.b[id] = val]

\* the Bounds that getBounds() hands out next: the last returned, or a new one
PoolNext(st) ==
    IF st.free = <<>> THEN st.made + 1 ELSE st.free[Len(st.free)]
\* getBounds()
getBounds(st, n) ==
    LET id == PoolNext(st)
        s1 == IF st.free = <<>>
              THEN [st EXCEPT !.made = @ + 1]
              ELSE [st EXCEPT !.free = SubSeq(@, 1, Len(@) - 1)]
    IN Log(s1, "get", n, id)
\* returnBounds(bounds)
returnBounds(st, n, id) ==
    Log([st EXCEPT !.free = Append(@, id)], "return", n, id)

\* ------------------------------------------- _getGlobalBoundsRecursive ----
\* a slip: an unmeasurable node is visited
SkipNodeIfHidden(sc, n) == sc.localVisibleRenderable[n] # 3

\* line 44: the node is skipped
SkipNode(sc, n) == sc.localVisibleRenderable[n] # 3 \/ ~sc.measurable[n]

\* line 49
ManageEffects(sc, n) == Len(sc.effects[n]) # 0

\* line 53: the node works on a pooled Bounds of its own
NeedsLocalBounds(sc, n) == sc.isRenderGroupRoot[n] \/ ManageEffects(sc, n)

\* lines 51-56: the state after localBounds is chosen (its id is LocalId)
TakeLocalBounds(sc, n, st) ==
    IF NeedsLocalBounds(sc, n)
    THEN LET id == PoolNext(st) IN SetB(getBounds(st, n), id, clear)
    ELSE st
LocalId(sc, n, bounds, st) ==
    IF NeedsLocalBounds(sc, n) THEN PoolNext(st) ELSE bounds

\* line 60: the bounds-area override goes to the caller's accumulator
AddBoundsArea(sc, n, bounds, st) ==
    Log(SetB(st, bounds,
             addRect(st.b[bounds], sc.boundsArea[n][1], worldTransform(sc, n))),
        "area", n, bounds)

\* lines 64-75: the view's bounds go to localBounds
AddView(sc, n, localBounds, st) ==
    IF sc.view[n] # <<>>
    THEN LET viewBounds == sc.view[n][1]
         IN Log(SetB(st, localBounds,
                     addFrame(st.b[localBounds],
                              viewBounds.minX, viewBounds.minY,
                              viewBounds.maxX, viewBounds.maxY,
                              rgTransform(sc, n))),
                "view", n, localBounds)
    ELSE st

\* a slip: localBounds is moved to world space before every call
CallEffectConvertsAgain(sc, n, localBounds, i, advanced, st) ==
    LET s1 == Log(SetB(st, localBounds,
                       applyMatrix(st.b[localBounds],
                                   renderGroupWorldTransform(sc, n))),
                  "toWorld", n, localBounds)
    IN Log(SetB(s1, localBounds,
                EffectAddBounds(sc.effects[n][i], s1.b[localBounds])),
           "effect", n, i)

\* lines 93-99: effect i adds its bounds, localBounds being moved to world
\* space first unless an earlier effect did so (advanced)
CallEffect(sc, n, localBounds, i, advanced, st) ==
    LET s1 == IF ~advanced
              THEN Log(SetB(st, localBounds,
                            applyMatrix(st.b[localBounds],
                                        renderGroupWorldTransform(sc, n))),
                       "toWorld", n, localBounds)
              ELSE st
    IN Log(SetB(s1, localBounds,
                EffectAddBounds(sc.effects[n][i], s1.b[localBounds])),
           "effect", n, i)

\* lines 87-101: the effects from index i on; advanced is the flag of line 87
RECURSIVE RunEffects(_, _, _, _, _, _)
RunEffects(sc, n, localBounds, i, advanced, st) ==
    IF i > Len(sc.effects[n]) THEN [st |-> st, advanced |-> advanced]
    ELSE IF sc.effects[n][i].capable
    THEN RunEffects(sc, n, localBounds, i + 1, TRUE,
                    CallEffect(sc, n, localBounds, i, advanced, st))
    ELSE RunEffects(sc, n, localBounds, i + 1, advanced, st)

\* lines 103-107: back from world space, and the merge through rgTransform
LeaveWorld(sc, n, bounds, localBounds, st) ==
    LET s1 == Log(SetB(st, localBounds,
                       applyMatrix(st.b[localBounds],
                                   invert(renderGroupWorldTransform(sc, n)))),
                  "fromWorld", n, localBounds)
    IN Log(SetB(s1, bounds,
                addBounds(s1.b[bounds], s1.b[localBounds], rgTransform(sc, n))),
           "merge", n, bounds)

\* a slip: localBounds is returned without the plain merge
MergeLocalOmitted(sc, n, bounds, localBounds, st) ==
    returnBounds(st, n, localBounds)

\* lines 109-110: the plain merge and the return of localBounds
MergeLocal(sc, n, bounds, localBounds, st) ==
    returnBounds(
        Log(SetB(st, bounds,
                 addBounds(st.b[bounds], st.b[localBounds], IDENTITY)),
            "merge", n, bounds),
        n, localBounds)

\* lines 85-111
MergeEffects(sc, n, bounds, localBounds, st) ==
    LET r == RunEffects(sc, n, localBounds, 1, FALSE, st)
        s1 == IF r.advanced
              THEN LeaveWorld(sc, n, bounds, localBounds, r.st)
              ELSE r.st
    IN MergeLocal(sc, n, bounds, localBounds, s1)

\* a slip: localBounds is merged and never returned
MergeRenderGroupKeeps(sc, n, bounds, localBounds, st) ==
    Log(SetB(st, bounds,
             addBounds(st.b[bounds], st.b[localBounds], rgTransform(sc, n))),
        "merge", n, bounds)

\* lines 112-116
MergeRenderGroup(sc, n, bounds, localBounds, st) ==
    returnBounds(
        Log(SetB(st, bounds,
                 addBounds(st.b[bounds], st.b[localBounds], rgTransform(sc, n))),
            "merge", n, bounds),
        n, localBounds)

\* lines 85-116
Merge(sc, n, bounds, localBounds, st) ==
    IF ManageEffects(sc, n) THEN MergeEffects(sc, n, bounds, localBounds, st)
    ELSE IF sc.isRenderGroupRoot[n]
    THEN MergeRenderGroup(sc, n, bounds, localBounds, st)
    ELSE st

RECURSIVE _getGlobalBoundsRecursive(_, _, _, _)
\* lines 77-82: the children from index i on
RECURSIVE VisitChildren(_, _, _, _, _)
VisitChildren(sc, children, i, localBounds, st) ==
    IF i > Len(children) THEN st
    ELSE VisitChildren(sc, children, i + 1, localBounds,
                       _getGlobalBoundsRecursive(sc, children[i], localBounds, st))

\* lines 58-83
Collect(sc, n, bounds, localBounds, st) ==
    IF sc.boundsArea[n] # <<>>
    THEN AddBoundsArea(sc, n, bounds, st)
    ELSE VisitChildren(sc, Children(sc, n), 1, localBounds,
                       AddView(sc, n, localBounds, st))

\* lines 39-117
_getGlobalBoundsRecursive(sc, n, bounds, st) ==
    LET s0 == Log(st, "enter", n, bounds)
    IN IF SkipNode(sc, n) THEN Log(s0, "exit", n, bounds)
       ELSE LET localBounds == LocalId(sc, n, bounds, s0)
                s1 == TakeLocalBounds(sc, n, s0)
                s2 == Collect(sc, n, bounds, localBounds, s1)
                s3 == Merge(sc, n, bounds, localBounds, s2)
            IN Log(s3, "exit", n, bounds)

\* ------------------------------------------------ getFastGlobalBounds ----
\* a slip: the render group's world transform is never applied
ToGlobalOmitted(sc, target, bounds, st) == st

\* lines 26-29
ToGlobal(sc, target, bounds, st) ==
    IF ~sc.isRenderGroupRoot[target]
    THEN SetB(st, bounds,
              applyMatrix(st.b[bounds], renderGroupWorldTransform(sc, target)))
    ELSE st

\* a slip: an invalid result is left as it is
ConcreteOmitted(bounds, st) == st

\* lines 31-34
Concrete(bounds, st) ==
    IF ~isValid(st.b[bounds]) THEN SetB(st, bounds, Rect(0, 0, 0, 0)) ELSE st

\* lines 20-37: the state after the call; the call returns `bounds`
getFastGlobalBounds(sc, target, bounds, st) ==
    LET s1 == SetB([st EXCEPT !.log = <<>>], bounds, clear)
        s2 == _getGlobalBoundsRecursive(sc, target, bounds, s1)
        s3 == ToGlobal(sc, target, bounds, s2)
    IN Concrete(bounds, s3)

\* --------------------------------------------------- the scene's setup ----
\* What the setters of Container may be given.
UnitView == Rect(0, 0, 1, 1)
Views == {<<>>, <<Rect(0, 0, 10, 10)>>}
Positions == {Translate(x, 2 * x) : x \in 1..MaxShift}
OuterWorlds == {Translate(5, 5)}
BoundsAreas == {[x |-> 1, y |-> 0, width |-> 2, height |-> 3]}
Effects == {Effect(FALSE, 0)} \cup {Effect(TRUE, m) : m \in 1..MaxMargin}

\* new Container(), with a view that measures the unit square
InitScene ==
    [nodes |-> {1},
     parent |-> [n \in NodeIds |-> 1],
     localVisibleRenderable |-> [n \in NodeIds |-> 3],
     measurable |-> [n \in NodeIds |-> TRUE],
     isRenderGroupRoot |-> [n \in NodeIds |-> FALSE],
     position |-> [n \in NodeIds |-> IDENTITY],
     view |-> [n \in NodeIds |-> <<UnitView>>],
     boundsArea |-> [n \in NodeIds |-> <<>>],
     effects |-> [n \in NodeIds |-> <<>>],
     outerWorld |-> IDENTITY]

\* new Bounds() for the caller, and an empty pool
InitHeap ==
    [b |-> [i \in BoundsIds |-> clear], free |-> <<>>, made |-> 0, log |-> <<>>]

CanEdit == last = <<>> /\ edits < MaxEdits
Edited(sc) ==
    /\ sc # scene
    /\ scene' = sc
    /\ edits' = edits + 1
    /\ UNCHANGED <<heap, last, tv, styles, notified, read>>

\* Container.addChild(new Container())
AddChild(p) ==
    /\ CanEdit /\ p \in scene.nodes
    /\ Cardinality(scene.nodes) < NumNodes
    /\ LET c == Cardinality(scene.nodes) + 1
       IN Edited([scene EXCEPT !.nodes = @ \cup {c}, !.parent[c] = p])

\* Container.visible = false (the high bit of localVisibleRenderable)
SetVisible(n) ==
    /\ CanEdit /\ n \in scene.nodes
    /\ Edited([scene EXCEPT !.localVisibleRenderable[n] = @ % 2])

\* Container.renderable = false (the low bit of localVisibleRenderable)
SetRenderable(n) ==
    /\ CanEdit /\ n \in scene.nodes
    /\ Edited([scene EXCEPT !.localVisibleRenderable[n] = (@ \div 2) * 2])

\* Container.measurable = false
SetMeasurable(n) ==
    /\ CanEdit /\ n \in scene.nodes
    /\ Edited([scene EXCEPT !.measurable[n] = FALSE])

\* Container.isRenderGroupRoot = true
EnableRenderGroup(n) ==
    /\ CanEdit /\ n \in scene.nodes
    /\ Edited([scene EXCEPT !.isRenderGroupRoot[n] = TRUE])

\* Container.position.set(x, y)
SetPosition(n, t) ==
    /\ CanEdit /\ n \in scene.nodes
    /\ Edited([scene EXCEPT !.position[n] = t])

\* Container.view = v, or no view
SetView(n, v) ==
    /\ CanEdit /\ n \in scene.nodes
    /\ Edited([scene EXCEPT !.view[n] = v])

\* Container.boundsArea = r
SetBoundsArea(n, r) ==
    /\ CanEdit /\ n \in scene.nodes
    /\ Edited([scene EXCEPT !.boundsArea[n] = <<r>>])

\* Container.addEffect(e)
AddEffect(n, e) ==
    /\ CanEdit /\ n \in scene.nodes
    /\ Edited([scene EXCEPT !.effects[n] = Append(@, e)])

\* the render group around node 1 is moved
SetOuterWorld(w) ==
    /\ CanEdit
    /\ Edited([scene EXCEPT !.outerWorld = w])

\* getFastGlobalBounds(target, out), out being the caller's Bounds
Query(target) ==
    /\ target \in scene.nodes
    /\ heap' = getFastGlobalBounds(scene, target, OutId, heap)
    /\ last' = <<[target |-> target, free |-> heap.free, made |-> heap.made,
                  dirty |-> isValid(heap.b[OutId]) /\ heap.b[OutId] # Rect(0, 0, 0, 0)]>>
    /\ UNCHANGED <<scene, edits, tv, styles, notified, read>>

vars == <<scene, edits, heap, last, tv, styles, notified, read>>

\* ----------------------------------------------------------- TextView ----
MaxFontSize == 2    \* largest font size of a style
MaxPadding == 1     \* largest padding of a style
MaxNumber == 1      \* largest number given as a text
StyleIds == {"s1", "s2"}
Strings == {<<>>, <<"1">>, <<"a", "b">>}
\* a TextString: a string or a number
TextStrings ==
    {<<"string", x>> : x \in Strings} \cup {<<"number", k>> : k \in 0..MaxNumber}
Digit == <<"0", "1", "2", "3", "4", "5", "6", "7", "8", "9">>
\* value.toString()
toString(value) ==
    IF value[1] = "string" THEN value[2] ELSE <<Digit[value[2] + 1]>>
StyleContents ==
    [fontSize : 1..MaxFontSize, padding : 0..MaxPadding]
Undefined == <<"undefined">>

\* CanvasTextMetrics.measureText(text, style): one font size per character
\* wide, one font size high
measureText(text, style) ==
    [width |-> Len(text) * style.fontSize, height |-> style.fontSize]

\* lines 184-218, a canvas text: the bounds of the text in the style
_updateBounds(text, style) ==
    LET padding == style.padding
        canvasMeasurement == measureText(text, style)
    IN <<0 - padding, 0 - padding,
         canvasMeasurement.width - padding, canvasMeasurement.height - padding>>

\* lines 170-175: the fields after onUpdate()
onUpdate(t) == [t EXCEPT !._didUpdate = TRUE, !._boundsDirty = TRUE]

\* lines 86-95: the fields after `text = value`
SetTextFields(t, value) ==
    IF t._text = toString(value) THEN t
    ELSE onUpdate([t EXCEPT !._text = toString(value)])
TextNotifies(t, value) == IF t._text = toString(value) THEN 0 ELSE 1

\* lines 47-84: new TextView({text, style}); the fields start as declared
Construct(value, s) ==
    /\ ~tv.made
    /\ LET fresh == [made |-> TRUE, _text |-> Undefined, _style |-> s,
                     _didUpdate |-> TRUE, _boundsDirty |-> TRUE,
                     _bounds |-> <<0, 1, 0, 0>>]
       IN /\ tv' = SetTextFields(fresh, value)
          /\ notified' = TextNotifies(fresh, value)
    /\ UNCHANGED <<styles, read, scene, edits, heap, last>>

\* lines 86-95: the text setter
SetText(value) ==
    /\ tv.made
    /\ tv' = SetTextFields(tv, value)
    /\ notified' = TextNotifies(tv, value)
    /\ UNCHANGED <<styles, read, scene, edits, heap, last>>

\* lines 107-117: the style setter
SetStyle(s) ==
    /\ tv.made
    /\ styles' = [x \in StyleIds |->
                     [styles[x] EXCEPT !.listening =
                         IF x = s THEN TRUE
                         ELSE IF x = tv._style THEN FALSE ELSE @]]
    /\ tv' = onUpdate([tv EXCEPT !._style = s])
    /\ notified' = 1
    /\ UNCHANGED <<read, scene, edits, heap, last>>

\* a style is changed and emits 'update' to its listeners
StyleUpdate(s, content) ==
    /\ content # styles[s].content
    /\ styles' = [styles EXCEPT ![s].content = content]
    /\ tv' = IF styles[s].listening THEN onUpdate(tv) ELSE tv
    /\ notified' = IF styles[s].listening THEN 1 ELSE 0
    /\ UNCHANGED <<read, scene, edits, heap, last>>

\* lines 129-138: the bounds getter
ReadBounds ==
    /\ tv.made
    /\ LET fresh == _updateBounds(tv._text, styles[tv._style].content)
           bounds == IF tv._boundsDirty THEN fresh ELSE tv._bounds
       IN /\ tv' = [tv EXCEPT !._bounds = bounds, !._boundsDirty = FALSE]
          /\ read' = <<[bounds |-> bounds, recomputed |-> tv._boundsDirty]>>
    /\ notified' = 0
    /\ UNCHANGED <<styles, scene, edits, heap, last>>

InitText ==
    /\ tv = [made |-> FALSE, _text |-> Undefined, _style |-> "s1",
             _didUpdate |-> TRUE, _boundsDirty |-> TRUE, _bounds |-> <<0, 1, 0, 0>>]
    /\ styles = [s \in StyleIds |->
                    [content |-> [fontSize |-> 1, padding |-> 0], listening |-> FALSE]]
    /\ notified = 0
    /\ read = <<>>

NextText ==
    \/ \E value \in TextStrings, s \in StyleIds : Construct(value, s)
    \/ \E value \in TextStrings : SetText(value)
    \/ \E s \in StyleIds : SetStyle(s)
    \/ \E s \in StyleIds, content \in StyleContents : StyleUpdate(s, content)
    \/ ReadBounds

Init ==
    /\ scene = InitScene
    /\ edits = 0
    /\ heap = InitHeap
    /\ last = <<>>
    /\ InitText

Next ==
    \/ \E p \in NodeIds : AddChild(p)
    \/ \E n \in NodeIds : SetVisible(n)
    \/ \E n \in NodeIds : SetRenderable(n)
    \/ \E n \in NodeIds : SetMeasurable(n)
    \/ \E n \in NodeIds : EnableRenderGroup(n)
    \/ \E n \in NodeIds, t \in Positions : SetPosition(n, t)
    \/ \E n \in NodeIds, v \in Views : SetView(n, v)
    \/ \E n \in NodeIds, r \in BoundsAreas : SetBoundsArea(n, r)
    \/ \E n \in NodeIds, e \in Effects : AddEffect(n, e)
    \/ \E w \in OuterWorlds : SetOuterWorld(w)
    \/ \E t \in NodeIds : Query(t)

Spec == Init /\ [][Next]_vars
SpecText == Init /\ [][NextText]_vars

\* ------------------------------------------------------------ reading ----
Queried == last # <<>>
Target == last[1].target
Result == heap.b[OutId]
Zero == Rect(0, 0, 0, 0)

\* n is t or lies below t
RECURSIVE IsUnder(_, _, _)
IsUnder(sc, n, t) ==
    \/ n = t
    \/ n # 1 /\ IsUnder(sc, sc.parent[n], t)
Subtree(sc, t) == {n \in sc.nodes : IsUnder(sc, n, t)}

\* the node is fully visible (0b11) and measurable
Shown(sc, n) == sc.localVisibleRenderable[n] = 3 /\ sc.measurable[n]

\* n is visited by the query of t and not skipped: n and every node between
\* t and n is visible and measurable, and no node above n has a bounds area
RECURSIVE Reached(_, _, _)
Reached(sc, t, n) ==
    /\ Shown(sc, n)
    /\ \/ n = t
       \/ /\ n # 1
          /\ Reached(sc, t, sc.parent[n])
          /\ sc.boundsArea[sc.parent[n]] = <<>>
ReachedNodes(sc, t) == {n \in Subtree(sc, t) : Reached(sc, t, n)}

\* a rectangle moved by a translation
Moved(r, m) == Rect(r.minX + m.tx, r.minY + m.ty, r.maxX + m.tx, r.maxY + m.ty)
Padded(r, k) == Rect(r.minX - k, r.minY - k, r.maxX + k, r.maxY + k)
AreaRect(a) == Rect(a.x, a.y, a.x + a.width, a.y + a.height)

\* the smallest rectangle around a set of rectangles (clear if there is none)
RECURSIVE Around(_)
Around(rs) ==
    IF rs = {} THEN clear
    ELSE LET r == CHOOSE x \in rs : TRUE
             a == Around(rs \ {r})
         IN Rect(Min(a.minX, r.minX), Min(a.minY, r.minY),
                 Max(a.maxX, r.maxX), Max(a.maxY, r.maxY))

EventsOf(n) == {i \in 1..Len(heap.log) : heap.log[i].node = n}
OpsOf(n, op) == {i \in EventsOf(n) : heap.log[i].op = op}

\* ------------------------------------------------------------- claims ----
NoBoundsArea(sc, t) == \A n \in Subtree(sc, t) : sc.boundsArea[n] = <<>>
WithView(sc, t) == {n \in ReachedNodes(sc, t) : sc.view[n] # <<>>}

\* C1: without bounds areas, the result of a query contains the view bounds of
\* every node reached through visible, measurable nodes, moved by that node's
\* world transform.
C1_NeverSmaller ==
    (Queried /\ NoBoundsArea(scene, Target)) =>
        \A n \in WithView(scene, Target) :
            Contains(Result, Moved(scene.view[n][1], worldTransform(scene, n)))

\* the target's subtree has no render group, no effect and no bounds area
NoBoundaries(sc, t) ==
    \A n \in Subtree(sc, t) :
        /\ ~sc.isRenderGroupRoot[n]
        /\ sc.effects[n] = <<>>
        /\ sc.boundsArea[n] = <<>>
\* the view bounds of the contributing nodes, each moved by the node's
\* rgTransform and then once by the target's render-group world transform
MovedViews(sc, t) ==
    {Moved(Moved(sc.view[n][1], rgTransform(sc, n)),
           renderGroupWorldTransform(sc, t)) : n \in WithView(sc, t)}

\* C2: without render groups, effects and bounds areas the result is exactly
\* the rectangle around the moved view bounds of the contributing nodes.
C2_Exact ==
    (Queried /\ NoBoundaries(scene, Target) /\ MovedViews(scene, Target) # {}) =>
        Result = Around(MovedViews(scene, Target))
\* the scenario of the specification: a 10 x 10 child view under a render
\* group at (5, 5) gives (5, 5, 15, 15)
C2_Witness ==
    /\ Queried /\ NoBoundaries(scene, Target)
    /\ Target = 1 /\ scene.nodes = {1, 2}
    /\ scene.view[2] = <<Rect(0, 0, 10, 10)>>
    /\ scene.outerWorld = Translate(5, 5)
    /\ Result = Rect(5, 5, 15, 15)

\* no visited node has a view or a bounds area
NothingContributes(sc, t) ==
    \A n \in ReachedNodes(sc, t) : sc.view[n] = <<>> /\ sc.boundsArea[n] = <<>>

\* C3: whatever the output Bounds held before, the result is a valid
\* rectangle, and it is (0, 0, 0, 0) when nothing in the subtree contributes.
C3_Concrete ==
    Queried =>
        /\ isValid(Result)
        /\ NothingContributes(scene, Target) => Result = Zero
\* an output Bounds that held another rectangle, queried for a node with no
\* view, no children and no bounds area
C3_Witness ==
    /\ Queried /\ last[1].dirty
    /\ Shown(scene, Target)
    /\ scene.view[Target] = <<>> /\ scene.boundsArea[Target] = <<>>
    /\ Children(scene, Target) = <<>>
    /\ Result = Zero

\* the scene without node c and the nodes below it
Without(sc, c) == [sc EXCEPT !.nodes = @ \ Subtree(sc, c)]
\* the rectangle a query of t returns on scene sc
Answer(sc, t) == getFastGlobalBounds(sc, t, OutId, InitHeap).b[OutId]
\* the nodes below the target that the visit skips
SkippedBelow(sc, t) == {c \in Subtree(sc, t) \ {t} : ~Shown(sc, c)}

\* C4: a node below the target that is not fully visible or not measurable
\* changes nothing: the result is that of the tree without it, and its visit
\* touches no Bounds, takes none from the pool and visits no child.
C4_InvisibleExcluded ==
    Queried =>
        \A c \in SkippedBelow(scene, Target) :
            /\ Result = Answer(Without(scene, c), Target)
            /\ \A i \in EventsOf(c) : heap.log[i].op \in {"enter", "exit"}
            /\ \A d \in Subtree(scene, c) \ {c} : EventsOf(d) = {}
\* a skipped node that was visited, with a visible child that has a view
C4_Witness ==
    /\ Queried
    /\ \E c \in SkippedBelow(scene, Target) :
          /\ OpsOf(c, "enter") # {}
          /\ \E d \in Subtree(scene, c) \ {c} :
                Shown(scene, d) /\ scene.view[d] # <<>>

\* the target's subtree has no effect and no bounds area
NoEffectsNoArea(sc, t) ==
    \A n \in Subtree(sc, t) : sc.effects[n] = <<>> /\ sc.boundsArea[n] = <<>>
AsRenderGroup(sc, n) == [sc EXCEPT !.isRenderGroupRoot[n] = TRUE]

\* C5: without effects and bounds areas, making a node below the target a
\* render-group root leaves the result as it was.
C5_RenderGroupIsolation ==
    (Queried /\ NoEffectsNoArea(scene, Target)) =>
        \A n \in Subtree(scene, Target) \ {Target} :
            ~scene.isRenderGroupRoot[n] =>
                Answer(AsRenderGroup(scene, n), Target) = Result

\* where the result of a query of t lives: world space, or for a target that
\* roots a render group the space of the group around it
ResultSpace(sc, t, n) ==
    IF sc.isRenderGroupRoot[t]
    THEN appendFrom(worldTransform(sc, n),
                    invert(appendFrom(renderGroupWorldTransform(sc, t),
                                      invert(rgTransform(sc, t)))))
    ELSE worldTransform(sc, n)
\* a leaf with the unit view and one effect that pads
PaddedLeaf(sc, n) ==
    /\ Shown(sc, n)
    /\ Children(sc, n) = <<>>
    /\ sc.view[n] = <<UnitView>>
    /\ sc.boundsArea[n] = <<>>
    /\ Len(sc.effects[n]) = 1 /\ sc.effects[n][1].capable

\* C6: the bounds of a leaf with the unit view and one padding effect cover
\* the unit square, moved to the result's space, padded by the margin.
C6_EffectExpansion ==
    (Queried /\ PaddedLeaf(scene, Target)) =>
        Contains(Result,
                 Padded(Moved(UnitView, ResultSpace(scene, Target, Target)),
                        scene.effects[Target][1].margin))
\* such a leaf, moved in its render group, in a moved render group
C6_Witness ==
    /\ Queried /\ PaddedLeaf(scene, Target)
    /\ rgTransform(scene, Target) # IDENTITY
    /\ renderGroupWorldTransform(scene, Target) # IDENTITY
    /\ scene.effects[Target][1].margin > 0

Gets == {i \in 1..Len(heap.log) : heap.log[i].op = "get"}
\* the return of the Bounds taken at g, by the visit that took it
ReturnOf(g) ==
    CHOOSE r \in OpsOf(heap.log[g].node, "return") : heap.log[r].arg = heap.log[g].arg
Borrows(sc, n) ==
    Shown(sc, n) /\ (sc.isRenderGroupRoot[n] \/ sc.effects[n] # <<>>)

\* C7: a visit takes one Bounds from the pool exactly when its node is
\* visible, measurable and a render-group root or has effects; it returns that
\* Bounds once, before it ends and after the visits below it returned theirs;
\* as many Bounds are out of the pool after the query as before.
C7_PoolDiscipline ==
    Queried =>
        /\ \A n \in scene.nodes :
              /\ Cardinality(OpsOf(n, "get")) =
                     IF OpsOf(n, "enter") # {} /\ Borrows(scene, n) THEN 1 ELSE 0
              /\ Cardinality(OpsOf(n, "return")) = Cardinality(OpsOf(n, "get"))
              /\ \A g \in OpsOf(n, "get") :
                    /\ \E r \in OpsOf(n, "return") : heap.log[r].arg = heap.log[g].arg
                    /\ g < ReturnOf(g)
                    /\ \A x \in OpsOf(n, "exit") : ReturnOf(g) < x
        /\ \A g1, g2 \in Gets :
              (g1 < g2 /\ g2 < ReturnOf(g1)) => ReturnOf(g2) < ReturnOf(g1)
        /\ \A g1, g2 \in Gets :
              (g1 < g2 /\ heap.log[g1].arg = heap.log[g2].arg) => ReturnOf(g1) < g2
        /\ heap.made - Len(heap.free) = last[1].made - Len(last[1].free)
\* a visit that took a Bounds inside a visit that took one, one of the two on
\* a node with a bounds area
C7_Witness ==
    /\ Queried
    /\ \E g1, g2 \in Gets :
          /\ g1 < g2 /\ g2 < ReturnOf(g1)
          /\ \/ scene.boundsArea[heap.log[g1].node] # <<>>
             \/ scene.boundsArea[heap.log[g2].node] # <<>>

\* the visit of n touched neither its view nor a node below it
OnlyTheArea(sc, n) ==
    /\ OpsOf(n, "view") = {}
    /\ \A d \in Subtree(sc, n) \ {n} : EventsOf(d) = {}
HasArea(sc, t) == {n \in ReachedNodes(sc, t) : sc.boundsArea[n] # <<>>}

\* C8: a visited node with a bounds area contributes that rectangle moved
\* once by its world transform, and neither its view nor its children.
C8_AreaOverride ==
    Queried =>
        \A n \in HasArea(scene, Target) :
            /\ OnlyTheArea(scene, n)
            /\ Contains(Result, Moved(AreaRect(scene.boundsArea[n][1]),
                                      ResultSpace(scene, Target, n)))
            /\ n = Target =>
                  Result = Moved(AreaRect(scene.boundsArea[n][1]),
                                 ResultSpace(scene, Target, n))

Capable(sc, n) == {i \in 1..Len(sc.effects[n]) : sc.effects[n][i].capable}
WithEffects(sc, t) == {n \in ReachedNodes(sc, t) : sc.effects[n] # <<>>}

\* C9: the effects that can add bounds are called in list order, an effect
\* that cannot is passed over; the local Bounds goes to world space once,
\* right before the first call, and back once, after the last; with no call
\* it is not converted.
C9_EffectOrder ==
    Queried =>
        \A n \in WithEffects(scene, Target) :
            LET calls == OpsOf(n, "effect")
                into == OpsOf(n, "toWorld")
                back == OpsOf(n, "fromWorld")
                some == Capable(scene, n) # {}
            IN /\ {heap.log[c].arg : c \in calls} = Capable(scene, n)
               /\ Cardinality(calls) = Cardinality(Capable(scene, n))
               /\ \A c1, c2 \in calls :
                     c1 < c2 => heap.log[c1].arg < heap.log[c2].arg
               /\ Cardinality(into) = IF some THEN 1 ELSE 0
               /\ Cardinality(back) = IF some THEN 1 ELSE 0
               /\ \A i \in into : \A c \in calls : i < c
               /\ \A i \in into : i + 1 \in calls
               /\ \A o \in back : \A c \in calls : c < o
\* an effect that cannot add bounds before one that can, in a moved group
C9_Witness ==
    /\ Queried
    /\ \E n \in WithEffects(scene, Target) :
          /\ \E i, j \in 1..Len(scene.effects[n]) :
                i < j /\ ~scene.effects[n][i].capable /\ scene.effects[n][j].capable
          /\ renderGroupWorldTransform(scene, n) # IDENTITY
          /\ OpsOf(n, "fromWorld") # {}

\* C10: a read of bounds gives the measurement of the current text in the
\* current style; a read recomputes exactly when the flag is set; and a change
\* of the text, a style set and an update of the current style set the flag
\* and notify the owner.
C10_NeverStale ==
    /\ tv.made /\ ~tv._boundsDirty =>
          tv._bounds = _updateBounds(tv._text, styles[tv._style].content)
    /\ tv.made /\ notified > 0 => tv._boundsDirty

====
